---- MODULE Spec2Model ----
(***************************************************************************)
(* Order placement, payment, identity and catalog of the Flask back end    *)
(* in src/server/app.py over the schema of src/server/models.py (the       *)
(* module app.py imports; src/server/App/models.py is an older schema that *)
(* nothing imports).                                                       *)
(*                                                                         *)
(* The committed relational store is the variable db, one field per table. *)
(* A handler runs in one request-scoped ORM session: rows it adds are      *)
(* pending until db.session.commit(); a handler that returns or raises     *)
(* before the commit leaves them to the session teardown, which rolls      *)
(* them back.  Money (Numeric(10,2)) is counted in cents.  The store is    *)
(* the default one, sqlite:///app.db: NOT NULL and UNIQUE are enforced,    *)
(* foreign keys are not, and a new row's id is max(id) + 1.                *)
(*                                                                         *)
(* The cascade options of models.py are read as declared: a delete         *)
(* propagates along every relationship whose cascade holds "all", from the *)
(* class that declares the relationship to its target; along the backref   *)
(* of such a relationship (default cascade) the unit of work sets the      *)
(* children's foreign key to NULL instead.  No handler writes carts,       *)
(* cart items, reviews or roles, so these tables stay empty and are left   *)
(* out.  Token expiry (one day) is left out.  The ORM accepts the          *)
(* delete-orphan option on a many-to-one relationship only together with   *)
(* single_parent; the model takes the mappers as configured with the       *)
(* cascades they declare.                                                  *)
(*                                                                         *)
(* Request bodies carry the fields their handler reads (payment_method and *)
(* amount, email and password, the product's name); what the model draws   *)
(* from sets are the fields the handlers decide on.                        *)
(***************************************************************************)
EXTENDS Integers, Sequences, FiniteSets, TLC

\* ------------------------------------------------------------ bounds
MaxUsers == 1
MaxTokens == 2
MaxCategories == 1
MaxProducts == 2
MaxPrice == 2
MaxOrders == 1
MaxLines == 2
MaxQuantity == 1
MaxAmount == 1
MaxWorkers == 2
MaxTail == 1

\* ------------------------------------------------------------ constants
MinUsernameLen == 3
MaxUsernameLen == 20

HTTP_OK == 200
HTTP_CREATED == 201
HTTP_BAD_REQUEST == 400
HTTP_UNAUTHORIZED == 401
HTTP_NOT_FOUND == 404
HTTP_INTERNAL == 500

VARIABLES db, tokens, BLACKLIST, req, resp

vars == <<db, tokens, BLACKLIST, req, resp>>

\* ------------------------------------------------------------ helpers
Max(S) == IF S = {} THEN 0 ELSE CHOOSE m \in S : \A x \in S : x <= m

\* id of the next row of a table: integer primary key, max(id) + 1
NextId(table) == Max(DOMAIN table) + 1

\* the table with one more row
Insert(table, id, row) == [k \in DOMAIN table \cup {id} |-> IF k = id THEN row ELSE table[k]]

\* the table without the rows of a set of ids
Remove(table, ids) == [k \in DOMAIN table \ ids |-> table[k]]

\* rows added through db.session.add, in the order of the adds
Merge(table, added) == [k \in DOMAIN table \cup DOMAIN added |-> IF k \in DOMAIN added THEN added[k] ELSE table[k]]

EmptyTable == [k \in {} |-> 0]

NULL == "NULL"

\* func.now(): the store's clock, never NULL
Now == "now"

\* The response a step completes, kept for the properties: the handler, its
\* HTTP status, the number of session rows the request left uncommitted,
\* and the arguments the handler read (none when jwt_required turned the
\* request away).
Response(op, status, pending, args) ==
    [op |-> op, status |-> status, pending |-> pending, args |-> args]

Id(n) == [id |-> n]

\* the response of a handler behind jwt_required, with the jti of the token
\* the request presented
Reply(tok, op, status, pending, args) ==
    [op |-> op, status |-> status, pending |-> pending, args |-> args, jti |-> tok]

\* a step that completes no response
NoResponse == Response("none", HTTP_OK, 0, Id(0))

Idle == [pc |-> "idle", tok |-> 0, order_id |-> 0, amount |-> 0]

\* ------------------------------------------------------------ identity
Letters == {"a", "b"}
Digits == {"1"}
Underscore == {"_"}
Newline == "\n"
Alphabet == Letters \cup Digits \cup Underscore \cup {"-", Newline}

\* \w of the re module
WordChar(c) == c \in Letters \cup Digits \cup Underscore

AllWord(s, n) == \A i \in 1..n : WordChar(s[i])

\* re.match(r"^\w+$", s): one or more word characters up to the end of the
\* string, where $ also matches just before a newline that ends the string
ReMatchWord(s) ==
    \/ Len(s) >= 1 /\ AllWord(s, Len(s))
    \/ Len(s) >= 2 /\ s[Len(s)] = Newline /\ AllWord(s, Len(s) - 1)

UsernameTaken(d, username) == \E u \in DOMAIN d.users : d.users[u].username = username

\* User.validate_username: TRUE when the validator returns the value,
\* FALSE when it raises ValueError
validate_username(d, username) ==
    /\ ~(Len(username) < MinUsernameLen \/ Len(username) > MaxUsernameLen)
    /\ ReMatchWord(username)
    /\ ~UsernameTaken(d, username)

\* a jwt_required that verifies the token and never consults BLACKLIST
TokenIssued(tok) == tok \in 1..Len(tokens)
\* check_if_token_in_blocklist and jwt_required: the token was issued by
\* login and its jti is not blacklisted (jti 0: no or a forged token)
TokenOk(tok) == tok \in 1..Len(tokens) /\ tok \notin BLACKLIST

get_jwt_identity(tok) == tokens[tok]

\* ------------------------------------------------------------ inputs
UserIds == 1..MaxUsers
Jtis == 0..MaxTokens
CategoryIds == 1..MaxCategories
ProductIds == 1..MaxProducts
OrderIds == 1..MaxOrders
Prices == 1..MaxPrice
Amounts == 1..MaxAmount
Workers == 1..MaxWorkers

\* the quantity of a cart line as the client sends it: any integer
Quantities == (0 - 1)..MaxQuantity

\* one entry of cart_items; has_quantity is FALSE when the key is omitted
CartLines == [product_id : ProductIds, has_quantity : BOOLEAN, quantity : Quantities]

NormalLine(l) == l.has_quantity \/ l.quantity = 1

CartItemLists == UNION {[1..n -> {l \in CartLines : NormalLine(l)}] : n \in 0..MaxLines}

\* the shipping_address of the body: absent, a dict with every NOT NULL
\* column, or a dict that lacks one of them
ShippingPayloads == {"none", "complete", "incomplete"}

\* ------------------------------------------------------------ users
\* POST /users
CreateUser(username) ==
    /\ NextId(db.users) <= MaxUsers \/ ~validate_username(db, username)
    /\ IF validate_username(db, username)
       THEN /\ db' = [db EXCEPT !.users = Insert(@, NextId(@), [username |-> username])]
            /\ resp' = Response("create_user", HTTP_CREATED, 0, [username |-> username])
       ELSE /\ db' = db
            /\ resp' = Response("create_user", HTTP_INTERNAL, 0, [username |-> username])
    /\ UNCHANGED <<tokens, BLACKLIST, req>>

\* POST /login; password_ok is the result of bcrypt.check_password_hash
Login(u, password_ok) ==
    /\ Len(tokens) < MaxTokens
    /\ IF u \in DOMAIN db.users /\ password_ok
       THEN /\ tokens' = Append(tokens, u)
            /\ resp' = Response("login", HTTP_OK, 0, Id(u))
       ELSE /\ tokens' = tokens
            /\ resp' = Response("login", HTTP_UNAUTHORIZED, 0, Id(u))
    /\ UNCHANGED <<db, BLACKLIST, req>>

\* POST /logout
Logout(tok) ==
    /\ IF TokenOk(tok)
       THEN /\ BLACKLIST' = BLACKLIST \cup {tok}
            /\ resp' = Reply(tok, "logout", HTTP_OK, 0, Id(tok))
       ELSE /\ BLACKLIST' = BLACKLIST
            /\ resp' = Reply(tok, "logout", HTTP_UNAUTHORIZED, 0, Id(0))
    /\ UNCHANGED <<db, tokens, req>>

UpdateArgs(user_id, has_username, username) ==
    [id |-> user_id, has_username |-> has_username, username |-> username]

\* PUT /users/<user_id>; has_username: the body holds the key 'username'
UpdateUser(tok, user_id, has_username, username) ==
    /\ IF ~TokenOk(tok)
       THEN /\ db' = db
            /\ resp' = Reply(tok, "update_user", HTTP_UNAUTHORIZED, 0, Id(0))
       ELSE IF user_id \notin DOMAIN db.users
       THEN /\ db' = db
            /\ resp' = Reply(tok, "update_user", HTTP_NOT_FOUND, 0, Id(user_id))
       ELSE IF has_username /\ ~validate_username(db, username)
       THEN /\ db' = db
            /\ resp' = Reply(tok, "update_user", HTTP_INTERNAL, 0, UpdateArgs(user_id, has_username, username))
       ELSE /\ db' = IF has_username
                     THEN [db EXCEPT !.users[user_id].username = username]
                     ELSE db
            /\ resp' = Reply(tok, "update_user", HTTP_OK, 0, UpdateArgs(user_id, has_username, username))
    /\ UNCHANGED <<tokens, BLACKLIST, req>>

\* ------------------------------------------------------------ deletes
\* What one db.session.delete(...) and commit removes.  roots names the
\* objects handed to delete; the delete cascade follows User.orders,
\* Order.order_items, Order.shipping_address, OrderItem.product and
\* Product.category.
DeleteSet(d, roots) ==
    LET us == roots.users
        os == roots.orders \cup {o \in DOMAIN d.orders : d.orders[o].user_id \in us}
        is == roots.order_items \cup {i \in DOMAIN d.order_items : d.order_items[i].order_id \in os}
        ss == {s \in DOMAIN d.shipping_addresses : d.shipping_addresses[s].order_id \in os}
        ps == roots.products \cup
              ({d.order_items[i].product_id : i \in is} \cap DOMAIN d.products)
        cs == roots.categories \cup
              ({d.products[p].category_id : p \in ps} \cap d.categories)
    IN [users |-> us, orders |-> os, order_items |-> is, shipping_addresses |-> ss,
        products |-> ps, categories |-> cs]

\* The rows the flush would UPDATE to a NULL foreign key: children that
\* stay behind on a backref without delete cascade (Product.order_items,
\* Category.products).  Both columns are NOT NULL, so a non-empty set makes
\* the flush raise IntegrityError.
NulledOut(d, del) ==
    [order_items |-> {i \in DOMAIN d.order_items \ del.order_items :
                         d.order_items[i].product_id \in del.products},
     products |-> {p \in DOMAIN d.products \ del.products :
                         d.products[p].category_id \in del.categories}]

DeleteFails(d, del) ==
    NulledOut(d, del).order_items # {} \/ NulledOut(d, del).products # {}

DeleteRows(d, del) ==
    [d EXCEPT !.users = Remove(@, del.users),
              !.orders = Remove(@, del.orders),
              !.order_items = Remove(@, del.order_items),
              !.shipping_addresses = Remove(@, del.shipping_addresses),
              !.products = Remove(@, del.products),
              !.categories = @ \ del.categories]

NoRoots == [users |-> {}, orders |-> {}, order_items |-> {}, products |-> {}, categories |-> {}]

\* db.session.delete(obj); db.session.commit(): all of it or, on
\* IntegrityError, none of it
SessionDelete(d, roots) ==
    LET del == DeleteSet(d, roots)
    IN IF DeleteFails(d, del) THEN d ELSE DeleteRows(d, del)

SessionDeleteStatus(d, roots) ==
    IF DeleteFails(d, DeleteSet(d, roots)) THEN HTTP_INTERNAL ELSE HTTP_OK

\* DELETE /users/<user_id>
DeleteUser(tok, user_id) ==
    /\ IF ~TokenOk(tok)
       THEN /\ db' = db
            /\ resp' = Reply(tok, "delete_user", HTTP_UNAUTHORIZED, 0, Id(0))
       ELSE IF user_id \notin DOMAIN db.users
       THEN /\ db' = db
            /\ resp' = Reply(tok, "delete_user", HTTP_NOT_FOUND, 0, Id(user_id))
       ELSE LET roots == [NoRoots EXCEPT !.users = {user_id}]
            IN /\ db' = SessionDelete(db, roots)
               /\ resp' = Reply(tok, "delete_user", SessionDeleteStatus(db, roots), 0, Id(user_id))
    /\ UNCHANGED <<tokens, BLACKLIST, req>>

\* The schema's own operations, which no route wraps: deleting a Category,
\* a Product or an OrderItem through the session, and writing
\* Product.price.  The status is the one a route gives the outcome:
\* 200 for the commit, 500 for IntegrityError.
DeleteCategory(c) ==
    /\ c \in db.categories
    /\ LET roots == [NoRoots EXCEPT !.categories = {c}]
       IN /\ db' = SessionDelete(db, roots)
          /\ resp' = Response("delete_category", SessionDeleteStatus(db, roots), 0, Id(c))
    /\ UNCHANGED <<tokens, BLACKLIST, req>>

DeleteProduct(p) ==
    /\ p \in DOMAIN db.products
    /\ LET roots == [NoRoots EXCEPT !.products = {p}]
       IN /\ db' = SessionDelete(db, roots)
          /\ resp' = Response("delete_product", SessionDeleteStatus(db, roots), 0, Id(p))
    /\ UNCHANGED <<tokens, BLACKLIST, req>>

DeleteOrderItem(i) ==
    /\ i \in DOMAIN db.order_items
    /\ LET roots == [NoRoots EXCEPT !.order_items = {i}]
       IN /\ db' = SessionDelete(db, roots)
          /\ resp' = Response("delete_order_item", SessionDeleteStatus(db, roots), 0, Id(i))
    /\ UNCHANGED <<tokens, BLACKLIST, req>>

SetProductPrice(p, price) ==
    /\ p \in DOMAIN db.products
    /\ db.products[p].price # price
    /\ db' = [db EXCEPT !.products[p].price = price]
    /\ resp' = Response("set_product_price", HTTP_OK, 0, Id(p))
    /\ UNCHANGED <<tokens, BLACKLIST, req>>

\* ------------------------------------------------------------ catalog
\* POST /products
CreateProduct(tok, price, category_id) ==
    /\ NextId(db.products) <= MaxProducts
    /\ IF ~TokenOk(tok)
       THEN /\ db' = db
            /\ resp' = Reply(tok, "create_product", HTTP_UNAUTHORIZED, 0, Id(0))
       ELSE IF category_id \notin db.categories
       THEN /\ db' = db
            /\ resp' = Reply(tok, "create_product", HTTP_BAD_REQUEST, 0, Id(category_id))
       ELSE /\ db' = [db EXCEPT !.products =
                         Insert(@, NextId(@), [category_id |-> category_id, price |-> price])]
            /\ resp' = Reply(tok, "create_product", HTTP_CREATED, 0, Id(category_id))
    /\ UNCHANGED <<tokens, BLACKLIST, req>>

\* ------------------------------------------------------------ orders
Quantity(item) == IF item.has_quantity THEN item.quantity ELSE 1

\* (variant: the unit price, the quantity forgotten)
LinePriceUnit(product, quantity) == product.price

\* price = product.price * quantity
LinePrice(product, quantity) == product.price * quantity

\* The session after Order(user_id=user_id, total_price=0.0) was added:
\* the pending Order row, the pending OrderItem rows in the order of the
\* adds, the pending ShippingAddress rows and the local total_price.
NewOrderSession(uid) ==
    [order |-> [user_id |-> uid, total_price |-> 0, is_paid |-> FALSE, payment_date |-> NULL],
     order_items |-> <<>>,
     shipping |-> <<>>,
     total_price |-> 0,
     missing |-> FALSE]

\* the for loop over cart_items from entry k on; missing is TRUE when the
\* loop left through the return of a product that is not found
RECURSIVE AddCartItems(_, _, _, _)
AddCartItems(d, cart_items, k, sess) ==
    IF k > Len(cart_items) THEN sess
    ELSE LET item == cart_items[k]
         IN IF item.product_id \notin DOMAIN d.products
            THEN [sess EXCEPT !.missing = TRUE]
            ELSE LET quantity == Quantity(item)
                     price == LinePrice(d.products[item.product_id], quantity)
                 IN AddCartItems(d, cart_items, k + 1,
                        [sess EXCEPT !.total_price = @ + price,
                                     !.order_items = Append(@,
                                         [product_id |-> item.product_id,
                                          quantity |-> quantity,
                                          price |-> price])])

\* new_order.total_price = total_price
SetTotal(sess) == [sess EXCEPT !.order.total_price = sess.total_price]

\* if shipping_address_data: ... db.session.add(shipping_address)
AddShipping(sess, ship) ==
    IF ship = "none" THEN sess
    ELSE [sess EXCEPT !.shipping = Append(@, [complete |-> ship = "complete"])]

PendingRows(sess) == 1 + Len(sess.order_items) + Len(sess.shipping)

\* The INSERTs of the session's pending rows: the Order, then its
\* OrderItems and its ShippingAddress with the Order's id.
Flush(d, sess) ==
    LET oid == NextId(d.orders)
        base == Max(DOMAIN d.order_items)
        sid == NextId(d.shipping_addresses)
    IN [d EXCEPT !.orders = Insert(@, oid, sess.order),
                 !.order_items = Merge(@, [i \in (base + 1)..(base + Len(sess.order_items)) |->
                     [order_id |-> oid,
                      product_id |-> sess.order_items[i - base].product_id,
                      quantity |-> sess.order_items[i - base].quantity,
                      price |-> sess.order_items[i - base].price]]),
                 !.shipping_addresses = Merge(@, [i \in {sid + k - 1 : k \in 1..Len(sess.shipping)} |->
                     [order_id |-> oid]])]

\* a ShippingAddress without one of its NOT NULL columns
CommitFails(sess) == \E k \in 1..Len(sess.shipping) : ~sess.shipping[k].complete

\* db.session.commit(): every pending row or, on IntegrityError, none
Commit(d, sess) == IF CommitFails(sess) THEN d ELSE Flush(d, sess)

\* (variant: the teardown commits what the session holds)
TeardownCommits(d, sess) == Flush(d, sess)

\* the request ends without a commit: the session is removed and its
\* transaction rolled back
Teardown(d, sess) == d

OrderArgs(cart_items) == [cart_items |-> cart_items]

\* POST /orders
CreateOrder(tok, cart_items, ship) ==
    /\ NextId(db.orders) <= MaxOrders
    /\ IF ~TokenOk(tok)
       THEN /\ db' = db
            /\ resp' = Reply(tok, "create_order", HTTP_UNAUTHORIZED, 0, Id(0))
       ELSE IF Len(cart_items) = 0
       THEN /\ db' = db
            /\ resp' = Reply(tok, "create_order", HTTP_BAD_REQUEST, 0, OrderArgs(cart_items))
       ELSE LET looped == AddCartItems(db, cart_items, 1, NewOrderSession(get_jwt_identity(tok)))
                sess == AddShipping(SetTotal(looped), ship)
            IN IF looped.missing
               THEN /\ db' = Teardown(db, looped)
                    /\ resp' = Reply(tok, "create_order", HTTP_BAD_REQUEST, PendingRows(looped), OrderArgs(cart_items))
               ELSE IF CommitFails(sess)
               THEN /\ db' = Commit(db, sess)
                    /\ resp' = Reply(tok, "create_order", HTTP_INTERNAL, PendingRows(sess), OrderArgs(cart_items))
               ELSE /\ db' = Commit(db, sess)
                    /\ resp' = Reply(tok, "create_order", HTTP_CREATED, 0, OrderArgs(cart_items))
    /\ UNCHANGED <<tokens, BLACKLIST, req>>

\* ------------------------------------------------------------ payments
\* (variant: the check of is_paid forgotten)
OrderExists(d, order_id) == order_id \in DOMAIN d.orders

\* not (not order or order.is_paid)
OrderPayable(d, order_id) ==
    order_id \in DOMAIN d.orders /\ ~d.orders[order_id].is_paid

\* (variant: the Payment is added and the Order left as it was)
PaymentOnly(d, order_id, amount) ==
    [d EXCEPT !.payments = Insert(@, NextId(@), [order_id |-> order_id, amount |-> amount])]

\* (variant: the amount paid overwrites the order's total)
PaymentSetsTotal(d, order_id, amount) ==
    [d EXCEPT !.payments = Insert(@, NextId(@), [order_id |-> order_id, amount |-> amount]),
              !.orders[order_id] = [@ EXCEPT !.is_paid = TRUE, !.payment_date = Now,
                                             !.total_price = amount]]

\* payment = Payment(...); order.is_paid = True; order.payment_date =
\* func.now(); db.session.add(payment): the INSERT and the UPDATE of one
\* transaction
PaymentWrite(d, order_id, amount) ==
    [d EXCEPT !.payments = Insert(@, NextId(@), [order_id |-> order_id, amount |-> amount]),
              !.orders[order_id] = [@ EXCEPT !.is_paid = TRUE, !.payment_date = Now]]

\* db.session.commit() of make_payment; the UPDATE of an Order row that is
\* gone matches no row, which the ORM raises as StaleDataError
PaymentCommit(d, order_id, amount) ==
    IF order_id \in DOMAIN d.orders THEN PaymentWrite(d, order_id, amount) ELSE d

\* POST /payments, the whole request with no other request in between
MakePayment(tok, order_id, amount) ==
    /\ IF ~TokenOk(tok)
       THEN /\ db' = db
            /\ resp' = Reply(tok, "make_payment", HTTP_UNAUTHORIZED, 0, Id(0))
       ELSE IF ~OrderPayable(db, order_id)
       THEN /\ db' = db
            /\ resp' = Reply(tok, "make_payment", HTTP_BAD_REQUEST, 0, Id(order_id))
       ELSE /\ db' = PaymentCommit(db, order_id, amount)
            /\ resp' = Reply(tok, "make_payment", HTTP_CREATED, 0, Id(order_id))
    /\ UNCHANGED <<tokens, BLACKLIST, req>>

\* POST /payments served by worker w while other requests run: first
\* Order.query.get and the check of is_paid ...
MakePaymentCheck(w, tok, order_id, amount) ==
    /\ req[w].pc = "idle"
    /\ IF ~TokenOk(tok)
       THEN /\ req' = req
            /\ resp' = Reply(tok, "make_payment", HTTP_UNAUTHORIZED, 0, Id(0))
       ELSE IF ~OrderPayable(db, order_id)
       THEN /\ req' = req
            /\ resp' = Reply(tok, "make_payment", HTTP_BAD_REQUEST, 0, Id(order_id))
       ELSE /\ req' = [req EXCEPT ![w] = [pc |-> "checked", tok |-> tok, order_id |-> order_id, amount |-> amount]]
            /\ resp' = NoResponse
    /\ UNCHANGED <<db, tokens, BLACKLIST>>

\* ... then, in the worker's own transaction, the writes and the commit
MakePaymentCommit(w) ==
    /\ req[w].pc = "checked"
    /\ db' = PaymentCommit(db, req[w].order_id, req[w].amount)
    /\ resp' = Reply(req[w].tok, "make_payment",
                        IF req[w].order_id \in DOMAIN db.orders THEN HTTP_CREATED ELSE HTTP_INTERNAL,
                        0, Id(req[w].order_id))
    /\ req' = [req EXCEPT ![w] = Idle]
    /\ UNCHANGED <<tokens, BLACKLIST>>

\* ------------------------------------------------------------ specification
\* usernames a client may send: a run of letters one short of the lower
\* limit of the validator, or as long as its upper limit, followed by up to
\* MaxTail further characters
Pad(n) == [i \in 1..n |-> "a"]

PadLengths == {MinUsernameLen - 1, MaxUsernameLen}

Tails == UNION {[1..n -> Alphabet] : n \in 0..MaxTail}

Usernames == {Pad(n) \o t : n \in PadLengths, t \in Tails}

EmptyStore ==
    [categories |-> CategoryIds,
     products |-> EmptyTable,
     users |-> EmptyTable,
     orders |-> EmptyTable,
     order_items |-> EmptyTable,
     shipping_addresses |-> EmptyTable,
     payments |-> EmptyTable]

\* the store with its categories, before the first request
Init ==
    /\ db = EmptyStore
    /\ tokens = <<>>
    /\ BLACKLIST = {}
    /\ req = [w \in Workers |-> Idle]
    /\ resp = NoResponse

\* the store once every user has registered and logged in
InitShop ==
    /\ db = [EmptyStore EXCEPT !.users = [u \in UserIds |-> [username |-> Pad(MinUsernameLen + u)]]]
    /\ tokens = [u \in UserIds |-> u]
    /\ BLACKLIST = {}
    /\ req = [w \in Workers |-> Idle]
    /\ resp = NoResponse

\* registration, login and logout
NextUsers ==
    \/ \E username \in Usernames : CreateUser(username)
    \/ \E u \in UserIds, password_ok \in BOOLEAN : Login(u, password_ok)
    \/ \E tok \in Jtis : Logout(tok)
    \/ \E tok \in Jtis, u \in UserIds, has_username \in BOOLEAN :
          \E username \in (IF has_username THEN Usernames ELSE {<<>>}) :
             UpdateUser(tok, u, has_username, username)
    \/ \E tok \in Jtis, u \in UserIds : DeleteUser(tok, u)

SpecUsers == Init /\ [][NextUsers]_vars

\* the shop, one request at a time: every operation on the catalog, the
\* orders and the payments, and the deletion of users
Next ==
    \/ \E tok \in Jtis, u \in UserIds : DeleteUser(tok, u)
    \/ \E tok \in Jtis, price \in Prices, c \in CategoryIds : CreateProduct(tok, price, c)
    \/ \E tok \in Jtis, cart_items \in CartItemLists, ship \in ShippingPayloads :
          CreateOrder(tok, cart_items, ship)
    \/ \E tok \in Jtis, o \in OrderIds, amount \in Amounts : MakePayment(tok, o, amount)
    \/ \E c \in CategoryIds : DeleteCategory(c)
    \/ \E p \in ProductIds : DeleteProduct(p)
    \/ \E i \in DOMAIN db.order_items : DeleteOrderItem(i)
    \/ \E p \in ProductIds, price \in Prices : SetProductPrice(p, price)

Spec == InitShop /\ [][Next]_vars

\* orders and payments only, one request at a time
NextPay ==
    \/ \E tok \in Jtis, price \in Prices, c \in CategoryIds : CreateProduct(tok, price, c)
    \/ \E tok \in Jtis, cart_items \in CartItemLists, ship \in ShippingPayloads :
          CreateOrder(tok, cart_items, ship)
    \/ \E tok \in Jtis, o \in OrderIds, amount \in Amounts : MakePayment(tok, o, amount)
    \/ \E p \in ProductIds, price \in Prices : SetProductPrice(p, price)

SpecPay == InitShop /\ [][NextPay]_vars

\* orders and payments, with the payment requests of the workers
\* interleaved
NextConc ==
    \/ \E tok \in Jtis, price \in Prices, c \in CategoryIds : CreateProduct(tok, price, c)
    \/ \E tok \in Jtis, cart_items \in CartItemLists, ship \in ShippingPayloads :
          CreateOrder(tok, cart_items, ship)
    \/ \E w \in Workers, tok \in Jtis, o \in OrderIds, amount \in Amounts :
          MakePaymentCheck(w, tok, o, amount)
    \/ \E w \in Workers : MakePaymentCommit(w)

SpecConc == InitShop /\ [][NextConc]_vars

\* the carts of at most one line that leave quantity to its default
SingleLineCarts ==
    {c \in CartItemLists : Len(c) <= 1 /\ \A i \in DOMAIN c : ~c[i].has_quantity}

\* every handler behind jwt_required, with logins and logouts in between
NextAuth ==
    \/ \E u \in UserIds, password_ok \in BOOLEAN : Login(u, password_ok)
    \/ \E tok \in Jtis : Logout(tok)
    \/ \E tok \in Jtis, u \in UserIds, has_username \in BOOLEAN :
          \E username \in (IF has_username THEN {Pad(MinUsernameLen)} ELSE {<<>>}) :
             UpdateUser(tok, u, has_username, username)
    \/ \E tok \in Jtis, u \in UserIds : DeleteUser(tok, u)
    \/ \E tok \in Jtis, price \in Prices, c \in CategoryIds : CreateProduct(tok, price, c)
    \/ \E tok \in Jtis, cart_items \in SingleLineCarts, ship \in ShippingPayloads :
          CreateOrder(tok, cart_items, ship)
    \/ \E tok \in Jtis, o \in OrderIds, amount \in Amounts : MakePayment(tok, o, amount)

SpecAuth == InitShop /\ [][NextAuth]_vars

\* ------------------------------------------------------------ properties
ItemsOf(d, o) == {i \in DOMAIN d.order_items : d.order_items[i].order_id = o}

PaymentsOf(d, o) == {p \in DOMAIN d.payments : d.payments[p].order_id = o}

Resolvable(d, cart_items) ==
    \A k \in 1..Len(cart_items) : cart_items[k].product_id \in DOMAIN d.products

\* the sum over the first n cart lines of unit price x quantity, at the
\* prices of store d
RECURSIVE CartTotal(_, _, _)
CartTotal(d, cart_items, n) ==
    IF n = 0 THEN 0
    ELSE CartTotal(d, cart_items, n - 1)
         + d.products[cart_items[n].product_id].price * Quantity(cart_items[n])

RECURSIVE SumPrices(_, _)
SumPrices(d, ids) ==
    IF ids = {} THEN 0
    ELSE LET i == CHOOSE x \in ids : TRUE
         IN d.order_items[i].price + SumPrices(d, ids \ {i})

Authenticated(r) == r.status # HTTP_UNAUTHORIZED

\* C1: a create_order request of an authenticated user with a non-empty
\* cart whose products all resolve commits (unless its shipping address is
\* refused, and then nothing is written) an Order with exactly one OrderItem
\* per cart line, in the order of the lines, each priced at the product's
\* unit price at request time times the line's quantity, and a total_price
\* that is the sum of these prices.
C1_OrderTotals ==
    [][(resp'.op = "create_order" /\ Authenticated(resp')
            /\ Len(resp'.args.cart_items) > 0 /\ Resolvable(db, resp'.args.cart_items))
        => LET cart_items == resp'.args.cart_items
               created == DOMAIN db'.orders \ DOMAIN db.orders
               added == DOMAIN db'.order_items \ DOMAIN db.order_items
               base == Max(DOMAIN db.order_items)
           IN IF resp'.status = HTTP_CREATED
              THEN /\ Cardinality(created) = 1
                   /\ Cardinality(added) = Len(cart_items)
                   /\ \A o \in created :
                        /\ ItemsOf(db', o) = added
                        /\ db'.orders[o].total_price = CartTotal(db, cart_items, Len(cart_items))
                        /\ db'.orders[o].total_price = SumPrices(db', added)
                   /\ \A k \in 1..Len(cart_items) :
                        /\ base + k \in added
                        /\ db'.order_items[base + k].product_id = cart_items[k].product_id
                        /\ db'.order_items[base + k].quantity = Quantity(cart_items[k])
                        /\ db'.order_items[base + k].price =
                              db.products[cart_items[k].product_id].price * Quantity(cart_items[k])
              ELSE resp'.status = HTTP_INTERNAL /\ db' = db]_vars

\* C1 happens: an order of two lines, one of them with a quantity other
\* than 1, was committed with a total that is not zero.
C1_Witness ==
    /\ resp.op = "create_order" /\ resp.status = HTTP_CREATED
    /\ Len(resp.args.cart_items) >= 2
    /\ \E k \in 1..Len(resp.args.cart_items) : Quantity(resp.args.cart_items[k]) # 1
    /\ \E o \in DOMAIN db.orders : db.orders[o].total_price # 0 /\ Cardinality(ItemsOf(db, o)) >= 2

\* C2: a create_order request with a line whose product_id matches no
\* Product, at any position of the list, leaves the committed store as it
\* was before the request.
C2_MissingProductCommitsNothing ==
    [][(resp'.op = "create_order" /\ Authenticated(resp')
            /\ ~Resolvable(db, resp'.args.cart_items))
        => db' = db]_vars

\* C2 happens: the request was turned down after its Order and at least
\* one OrderItem had been added to the session.
C2_Witness ==
    /\ resp.op = "create_order" /\ resp.status = HTTP_BAD_REQUEST
    /\ resp.pending >= 2
    /\ ~Resolvable(db, resp.args.cart_items)
    /\ resp.args.cart_items[1].product_id \in DOMAIN db.products

C4_NoDuplicatePayment ==
    \A o \in DOMAIN db.orders : Cardinality(PaymentsOf(db, o)) <= 1

\* C5: in every committed state reached by create_order and make_payment
\* requests, an Order is paid exactly when a Payment references it, and a
\* paid Order has its payment_date set.
C5_PaidIffPayment ==
    \A o \in DOMAIN db.orders :
        /\ db.orders[o].is_paid <=> PaymentsOf(db, o) # {}
        /\ db.orders[o].is_paid => db.orders[o].payment_date # NULL

\* C5 happens: a payment was just committed.
C5_Witness ==
    /\ resp.op = "make_payment" /\ resp.status = HTTP_CREATED
    /\ \E o \in DOMAIN db.orders : db.orders[o].is_paid /\ PaymentsOf(db, o) # {}

\* C6: no step changes the total_price of a committed Order or the price
\* of a committed OrderItem.
C6_PricesFrozen ==
    [][/\ \A o \in DOMAIN db.orders \cap DOMAIN db'.orders :
             db'.orders[o].total_price = db.orders[o].total_price
       /\ \A i \in DOMAIN db.order_items \cap DOMAIN db'.order_items :
             /\ db'.order_items[i].price = db.order_items[i].price
             /\ db'.order_items[i].order_id = db.order_items[i].order_id]_vars

\* C6 happens: a paid order holds an item whose product costs something
\* else by now.
C6_Witness ==
    \E i \in DOMAIN db.order_items :
        LET item == db.order_items[i]
        IN /\ item.order_id \in DOMAIN db.orders
           /\ db.orders[item.order_id].is_paid
           /\ item.quantity = 1
           /\ item.product_id \in DOMAIN db.products
           /\ db.products[item.product_id].price # item.price

\* C7: deleting a Category deletes every Product that references it, and
\* afterwards no Product references a missing Category.
C7_CategoryDeleteCascades ==
    [][\A c \in CategoryIds : DeleteCategory(c)
          => /\ \A p \in DOMAIN db'.products : db'.products[p].category_id # c
             /\ \A p \in DOMAIN db'.products : db'.products[p].category_id \in db'.categories]_vars

\* C8: deleting a Product leaves the OrderItems that reference it in place
\* and unchanged, and a step that deletes an OrderItem, directly or through
\* the cascade of its Order, does not delete the Product it references.
C8_ProductAndItemsIndependent ==
    [][/\ \A p \in ProductIds : DeleteProduct(p)
             => \A i \in DOMAIN db.order_items : db.order_items[i].product_id = p
                   => i \in DOMAIN db'.order_items /\ db'.order_items[i] = db.order_items[i]
       /\ \A i \in DOMAIN db.order_items \ DOMAIN db'.order_items :
             db.order_items[i].product_id \in DOMAIN db.products
                => db.order_items[i].product_id \in DOMAIN db'.products]_vars

\* letters, digits and underscores only, 3 to 20 of them
ValidUsername(username) ==
    /\ Len(username) >= MinUsernameLen
    /\ Len(username) <= MaxUsernameLen
    /\ \A i \in 1..Len(username) : username[i] \in Letters \cup Digits \cup Underscore

UniqueUsernames(d) ==
    \A u, v \in DOMAIN d.users : d.users[u].username = d.users[v].username => u = v

\* C9: create_user and update_user accept a username exactly when it has
\* 3 to 20 characters, all of them letters, digits or underscores, and no
\* user has it; a rejected write changes nothing; usernames stay unique.
C9_UsernameAcceptedIffValid ==
    [][/\ resp'.op = "create_user"
             => /\ resp'.status = HTTP_CREATED
                      <=> ValidUsername(resp'.args.username) /\ ~UsernameTaken(db, resp'.args.username)
                /\ resp'.status # HTTP_CREATED => db' = db
       /\ (resp'.op = "update_user" /\ resp'.status \in {HTTP_OK, HTTP_INTERNAL} /\ resp'.args.has_username)
             => /\ resp'.status = HTTP_OK
                      <=> ValidUsername(resp'.args.username) /\ ~UsernameTaken(db, resp'.args.username)
                /\ resp'.status # HTTP_OK => db' = db
       /\ UniqueUsernames(db')]_vars

\* C10: every committed OrderItem has a quantity of at least 1.
C10_QuantityAtLeastOne ==
    \A i \in DOMAIN db.order_items : db.order_items[i].quantity >= 1

\* C11: a create_order request that names a product_id matching no
\* Product is answered with 404, the status of NotFound.
C11_MissingProductIs404 ==
    [][(resp'.op = "create_order" /\ Authenticated(resp')
            /\ Len(resp'.args.cart_items) > 0
            /\ ~Resolvable(db, resp'.args.cart_items))
        => resp'.status = HTTP_NOT_FOUND]_vars

JwtOps == {"logout", "update_user", "delete_user", "create_product", "create_order", "make_payment"}

Issued == 1..Len(tokens)

\* C12: BLACKLIST only grows, a successful logout adds the jti of its token
\* and nothing else, every request to a handler behind jwt_required that
\* presents a blacklisted token is answered 401 and writes nothing, and a
\* request with an issued token that is not blacklisted is not turned away.
C12_LoggedOutStaysOut ==
    [][/\ BLACKLIST \subseteq BLACKLIST'
       /\ resp'.op \in JwtOps
             => /\ resp'.jti \in BLACKLIST
                      => /\ resp'.status = HTTP_UNAUTHORIZED
                         /\ db' = db
                         /\ BLACKLIST' = BLACKLIST
                         /\ tokens' = tokens
                /\ (resp'.op = "logout" /\ resp'.status = HTTP_OK)
                      => BLACKLIST' = BLACKLIST \cup {resp'.jti}
                /\ resp'.op # "logout" => BLACKLIST' = BLACKLIST
                /\ resp'.jti \in Issued \ BLACKLIST => resp'.status # HTTP_UNAUTHORIZED]_vars

\* C12 happens: after a logout, an order or a payment presented with the
\* logged-out token was turned away while another session's token is good.
C12_Witness ==
    /\ resp.op \in {"create_order", "make_payment"}
    /\ resp.status = HTTP_UNAUTHORIZED
    /\ resp.jti \in BLACKLIST
    /\ Issued \ BLACKLIST # {}

\* C13: every Payment's order_id is the id of an existing Order.
C13_PaymentsReferToOrders ==
    \A p \in DOMAIN db.payments : db.payments[p].order_id \in DOMAIN db.orders

====
